---- MODULE Spec2Model ----
(***************************************************************************)
(* Model of mattermost_schedule/schedule.py: the ScheduleAPI POST /schedule *)
(* endpoint (request logging, body extraction, validation, routing and      *)
(* response assembly).                                                      *)
(*                                                                          *)
(* Strings are sequences of tokens (a token is one character, or a literal  *)
(* piece of text that is never looked into).  Python values are records     *)
(* tagged with their type.                                                  *)
(***************************************************************************)
EXTENDS Integers, Sequences, FiniteSets, TLC

VARIABLES slots, logged

vars == <<slots, logged>>

(***************************************************************************)
(* Bounds of the model.                                                     *)
(***************************************************************************)
\* integer ids range over -1 .. MaxId
MaxId == 3
\* number of requests the concurrent specification keeps in flight
MaxInFlight == 2
\* number of info/error log lines kept; no request is received once the lines
\* written and the requests in flight reach it
MaxLog == 2

(***************************************************************************)
(* Python values.                                                           *)
(***************************************************************************)
PyInt(n) == [t |-> "int", n |-> n, s |-> <<>>, k |-> "", d |-> <<>>]
PyBool(b) == [t |-> "bool", n |-> IF b THEN 1 ELSE 0, s |-> <<>>, k |-> "", d |-> <<>>]
\* a finite float is kept in tenths: PyFloat(27) is 2.7
PyFloat(tenths) == [t |-> "float", n |-> tenths, s |-> <<>>, k |-> "finite", d |-> <<>>]
PyInf == [t |-> "float", n |-> 0, s |-> <<>>, k |-> "inf", d |-> <<>>]
PyNaN == [t |-> "float", n |-> 0, s |-> <<>>, k |-> "nan", d |-> <<>>]
PyStr(s) == [t |-> "str", n |-> 0, s |-> s, k |-> "", d |-> <<>>]
PyNone == [t |-> "NoneType", n |-> 0, s |-> <<>>, k |-> "", d |-> <<>>]
\* a list of strings, each element one token of s
PyList(s) == [t |-> "list", n |-> 0, s |-> s, k |-> "", d |-> <<>>]
\* a dict with string keys: d maps each key to its value
PyDict(d) == [t |-> "dict", n |-> 0, s |-> <<>>, k |-> "", d |-> d]
\* a starlette UploadFile (a file field of a multipart form)
PyUploadFile == [t |-> "UploadFile", n |-> 0, s |-> <<>>, k |-> "", d |-> <<>>]

EmptyDict == PyDict(<<>>)

Digits == <<"0", "1", "2", "3", "4", "5", "6", "7", "8", "9">>

IsDigit(c) == \E i \in 1..Len(Digits) : Digits[i] = c

DigitVal(c) == (CHOOSE i \in 1..Len(Digits) : Digits[i] = c) - 1

IsSpace(c) == c \in {" ", "\t", "\n"}

RECURSIVE LStrip(_)
LStrip(s) == IF s # <<>> /\ IsSpace(Head(s)) THEN LStrip(Tail(s)) ELSE s

RECURSIVE RStrip(_)
RStrip(s) ==
    IF s # <<>> /\ IsSpace(s[Len(s)]) THEN RStrip(SubSeq(s, 1, Len(s) - 1)) ELSE s

\* str.strip()
Strip(s) == RStrip(LStrip(s))

RECURSIVE DigitsToNat(_)
DigitsToNat(s) ==
    IF s = <<>> THEN 0
    ELSE 10 * DigitsToNat(SubSeq(s, 1, Len(s) - 1)) + DigitVal(s[Len(s)])

RECURSIVE NatToStr(_)
NatToStr(n) ==
    IF n < 10 THEN <<Digits[n + 1]>>
    ELSE NatToStr(n \div 10) \o <<Digits[(n % 10) + 1]>>

IntToStr(n) == IF n < 0 THEN <<"-">> \o NatToStr(-n) ELSE NatToStr(n)

\* the outcome of an expression: a value, or the exception it raised
Value(v) == [exc |-> "", v |-> v]
Raised(e) == [exc |-> e, v |-> 0]

\* int(str): surrounding whitespace dropped, an optional sign, then digits
IntOfStr(s) ==
    LET body == Strip(s)
        signed == body # <<>> /\ Head(body) \in {"+", "-"}
        digs == IF signed THEN Tail(body) ELSE body
    IN  IF digs = <<>> \/ \E i \in 1..Len(digs) : ~IsDigit(digs[i])
        THEN Raised("ValueError")
        ELSE IF signed /\ Head(body) = "-"
             THEN Value(-DigitsToNat(digs))
             ELSE Value(DigitsToNat(digs))

\* float.__trunc__: towards zero
Trunc(tenths) == IF tenths < 0 THEN -((-tenths) \div 10) ELSE tenths \div 10

\* the builtin int(x)
PyIntOf(x) ==
    CASE x.t = "int" -> Value(x.n)
      [] x.t = "bool" -> Value(x.n)
      [] x.t = "float" ->
            IF x.k = "inf" THEN Raised("OverflowError")
            ELSE IF x.k = "nan" THEN Raised("ValueError")
            ELSE Value(Trunc(x.n))
      [] x.t = "str" -> IntOfStr(x.s)
      [] OTHER -> Raised("TypeError")

\* str(x), as an f-string renders a value
PyStrOf(x) ==
    CASE x.t = "int" -> IntToStr(x.n)
      [] x.t = "bool" -> IF x.n = 1 THEN <<"True">> ELSE <<"False">>
      [] x.t = "float" ->
            IF x.k = "inf" THEN <<"inf">>
            ELSE IF x.k = "nan" THEN <<"nan">>
            ELSE LET a == IF x.n < 0 THEN -x.n ELSE x.n
                 IN  (IF x.n < 0 THEN <<"-">> ELSE <<>>)
                     \o NatToStr(a \div 10) \o <<".">> \o NatToStr(a % 10)
      [] x.t = "str" -> x.s
      [] x.t = "NoneType" -> <<"None">>
      [] x.t = "list" -> <<"[">> \o x.s \o <<"]">>
      [] x.t = "dict" -> <<"{...}">>
      [] OTHER -> <<"UploadFile(...)">>

\* key in x, for a key that is one token: a dict has it as a key, a list as
\* an element, a string as a substring
PyContains(key, x) ==
    CASE x.t = "dict" -> Value(key \in DOMAIN x.d)
      [] x.t = "list" -> Value(\E i \in 1..Len(x.s) : x.s[i] = key)
      [] x.t = "str" -> Value(\E i \in 1..Len(x.s) : x.s[i] = key)
      [] OTHER -> Raised("TypeError")

\* x[key], for a string key
PyGetItem(x, key) ==
    IF x.t = "dict"
    THEN IF key \in DOMAIN x.d THEN Value(x.d[key]) ELSE Raised("KeyError")
    ELSE Raised("TypeError")

(***************************************************************************)
(* Responses and handler outcomes.                                          *)
(***************************************************************************)
\* JSONResponse(content=..., status_code=...)
JSONResponse(content, status) == [status |-> status, content |-> content]

NoResponse == [status |-> 0, content |-> <<>>]

\* what a handler did: the response it returned or the exception it raised,
\* and the info/error lines it logged
Returned(resp, lines) == [exc |-> "", resp |-> resp, lines |-> lines]
Threw(e, lines) == [exc |-> e, resp |-> NoResponse, lines |-> lines]

\* what a validator did: (is_valid, error) returned at check number `at`,
\* or an exception
Valid(at) == [exc |-> "", ok |-> TRUE, error |-> <<>>, at |-> at]
Invalid(error, at) == [exc |-> "", ok |-> FALSE, error |-> error, at |-> at]
ValidatorThrew(e, at) == [exc |-> e, ok |-> FALSE, error |-> <<>>, at |-> at]

(***************************************************************************)
(* ScheduleAPI._validate_json_command                                       *)
(***************************************************************************)
ValidateId(context) ==
    LET event_id == PyIntOf(context.d["id"])
    IN  IF event_id.exc \in {"ValueError", "TypeError"}
        THEN Invalid(<<"Invalid id: ">> \o PyStrOf(context.d["id"])
                     \o <<". Must be a valid integer.">>, 6)
        ELSE IF event_id.exc # ""
        THEN ValidatorThrew(event_id.exc, 6)
        ELSE IF event_id.v <= 0
        THEN Invalid(<<"Invalid id: ">> \o IntToStr(event_id.v)
                     \o <<". Must be a positive integer.">>, 6)
        ELSE Valid(6)

ValidateContext(context) ==
    IF context.t # "dict"
    THEN Invalid(<<"Context must be a dictionary">>, 2)
    ELSE IF "action" \notin DOMAIN context.d
    THEN Invalid(<<"No action specified in context">>, 3)
    ELSE IF ~(context.d["action"].t = "str" /\ context.d["action"].s = <<"delete">>)
    THEN Invalid(<<"Invalid action: ">> \o PyStrOf(context.d["action"])
                 \o <<". Only 'delete' is supported.">>, 4)
    ELSE IF "id" \notin DOMAIN context.d
    THEN Invalid(<<"No id specified in context">>, 5)
    ELSE ValidateId(context)

ValidateJsonCommand(data) ==
    LET has == PyContains("context", data)
    IN  IF has.exc # "" THEN ValidatorThrew(has.exc, 1)
        ELSE IF ~has.v THEN Invalid(<<"No context provided">>, 1)
        ELSE LET context == PyGetItem(data, "context")
             IN  IF context.exc # "" THEN ValidatorThrew(context.exc, 1)
                 ELSE ValidateContext(context.v)

(***************************************************************************)
(* ScheduleAPI._validate_form_command                                       *)
(***************************************************************************)
\* mutant: the command's value is not compared with "/schedule"
ValidateFormCommandAnyCommand(data) ==
    IF "command" \notin DOMAIN data
    THEN Invalid(<<"No command provided">>, 1)
    ELSE Valid(2)

ValidateFormCommand(data) ==
    IF "command" \notin DOMAIN data
    THEN Invalid(<<"No command provided">>, 1)
    ELSE IF ~(data["command"].t = "str" /\ data["command"].s = <<"/schedule">>)
    THEN Invalid(<<"Invalid command: ">> \o PyStrOf(data["command"])
                 \o <<". Only /schedule is supported.">>, 2)
    ELSE Valid(2)

(***************************************************************************)
(* ScheduleAPI.create_message_attachment, _handle_list_command,             *)
(* _handle_delete_command                                                   *)
(***************************************************************************)
\* mutant: the context carries a fixed id instead of message_id
create_message_attachment_fixed_id(pretext, text, message_id) ==
    [pretext |-> pretext,
     text |-> text,
     actions |-> <<[id |-> "delete",
                    name |-> "Delete",
                    style |-> "danger",
                    integration |->
                        [url |-> "http://localhost:8001/schedule",
                         context |-> [action |-> "delete", id |-> 1]]]>>]

create_message_attachment(pretext, text, message_id) ==
    [pretext |-> pretext,
     text |-> text,
     actions |-> <<[id |-> "delete",
                    name |-> "Delete",
                    style |-> "danger",
                    integration |->
                        [url |-> "http://localhost:8001/schedule",
                         context |-> [action |-> "delete", id |-> message_id]]]>>]

\* mutant: a delete handled earlier removes the second event from the list
HandleListCommandStateful ==
    Returned(
        JSONResponse(
            [text |-> <<"### Scheduled Events">>,
             attachments |->
                <<create_message_attachment(
                      <<>>, <<"### 2024-02-20 10:00 AM\nTeam Meeting">>, 1)>>
                \o (IF \E i \in 1..Len(logged) : logged[i] = "Deleting scheduled message ID"
                    THEN <<>>
                    ELSE <<create_message_attachment(
                               <<>>, <<"### 2024-02-21 2:30 PM\nProject Review">>, 2)>>)
                \o <<create_message_attachment(
                         <<>>, <<"### 2024-02-22 11:00 AM\nClient Call">>, 3)>>],
            200),
        <<"Listing scheduled events">>)

HandleListCommand ==
    Returned(
        JSONResponse(
            [text |-> <<"### Scheduled Events">>,
             attachments |->
                <<create_message_attachment(
                      <<>>, <<"### 2024-02-20 10:00 AM\nTeam Meeting">>, 1),
                  create_message_attachment(
                      <<>>, <<"### 2024-02-21 2:30 PM\nProject Review">>, 2),
                  create_message_attachment(
                      <<>>, <<"### 2024-02-22 11:00 AM\nClient Call">>, 3)>>],
            200),
        <<"Listing scheduled events">>)

\* mutant: the acknowledgement is returned under the key text
HandleDeleteCommandText(data) ==
    LET message_id == data.d["context"].d["id"]
    IN  Returned(
            JSONResponse(
                [text |->
                    <<"Scheduled message ">> \o PyStrOf(message_id) \o <<" deleted.">>],
                200),
            <<"Deleting scheduled message ID">>)

HandleDeleteCommand(data) ==
    LET message_id == data.d["context"].d["id"]
    IN  Returned(
            JSONResponse(
                [ephemeral_text |->
                    <<"Scheduled message ">> \o PyStrOf(message_id) \o <<" deleted.">>],
                200),
            <<"Deleting scheduled message ID">>)

(***************************************************************************)
(* ScheduleAPI._handle_json_command, _handle_form_command                   *)
(***************************************************************************)
HandleJsonCommand(data) ==
    LET v == ValidateJsonCommand(data)
    IN  IF v.exc # "" THEN Threw(v.exc, <<>>)
        ELSE IF ~v.ok
        THEN Returned(JSONResponse([text |-> <<"Error: ">> \o v.error], 400), <<>>)
        ELSE HandleDeleteCommand(data)

\* data.get("text") == "list"
TextIsList(data) ==
    "text" \in DOMAIN data /\ data["text"].t = "str" /\ data["text"].s = <<"list">>

\* mutant: the text "delete" is routed to a delete without id
HandleFormCommandWithDelete(data) ==
    LET v == ValidateFormCommand(data)
    IN  IF ~v.ok
        THEN Returned(JSONResponse([text |-> <<"Error: ">> \o v.error], 400), <<>>)
        ELSE IF TextIsList(data)
        THEN HandleListCommand
        ELSE IF "text" \in DOMAIN data /\ data["text"].t = "str"
                /\ data["text"].s = <<"delete">>
        THEN Returned(JSONResponse([text |-> <<"Scheduled message deleted.">>], 200),
                      <<"Deleting scheduled message ID">>)
        ELSE Returned(
                 JSONResponse(
                     [text |-> <<"Error: Unknown operation. Available: list">>], 400),
                 <<>>)

HandleFormCommand(data) ==
    LET v == ValidateFormCommand(data)
    IN  IF ~v.ok
        THEN Returned(JSONResponse([text |-> <<"Error: ">> \o v.error], 400), <<>>)
        ELSE IF TextIsList(data)
        THEN HandleListCommand
        ELSE Returned(
                 JSONResponse(
                     [text |-> <<"Error: Unknown operation. Available: list">>], 400),
                 <<>>)

(***************************************************************************)
(* Requests: the content-type header and the body.                          *)
(***************************************************************************)
CTAbsent == <<>>
CTJson == <<"application/json">>
CTJsonCharset == <<"application/json", "; charset=utf-8">>
\* the malformed header "application/jsonx"
CTJsonX == <<"application/json", "x">>
CTText == <<"text/plain">>
CTUrlEncoded == <<"application/x-www-form-urlencoded">>
CTMultipart == <<"multipart/form-data", "; boundary=b">>
CTMultipartNoBoundary == <<"multipart/form-data">>

ContentTypes ==
    {CTAbsent, CTJson, CTJsonCharset, CTJsonX, CTText, CTUrlEncoded, CTMultipart,
     CTMultipartNoBoundary}

EmptyBody == [kind |-> "empty", json |-> PyNone, form |-> <<>>]
\* bytes that are neither JSON nor a form
GarbageBody == [kind |-> "garbage", json |-> PyNone, form |-> <<>>]
JsonBody(v) == [kind |-> "json", json |-> v, form |-> <<>>]
UrlEncodedBody(f) == [kind |-> "urlencoded", json |-> PyNone, form |-> f]
MultipartBody(f) == [kind |-> "multipart", json |-> PyNone, form |-> f]

Request(ct, body) == [ctype |-> ct, body |-> body]

\* "tok" in content_type
StrContains(str, tok) == \E i \in 1..Len(str) : str[i] = tok

IsParam(tok) == tok \in {"; charset=utf-8", "; boundary=b"}

\* the media type of a content-type header: what precedes its parameters
RECURSIVE MediaType(_)
MediaType(ct) ==
    IF ct = <<>> \/ IsParam(Head(ct)) THEN <<>>
    ELSE <<Head(ct)>> \o MediaType(Tail(ct))

\* the outcome of reading the body: the parsed json or form, the exception
\* raised, or not read yet
JsonRaised(e) == [exc |-> e, v |-> PyNone]
FormRaised(e) == [exc |-> e, v |-> <<>>]
UnreadJson == JsonRaised("unread")
UnreadForm == FormRaised("unread")

\* await request.json(): json.loads of the body
RequestJson(req) ==
    IF req.body.kind = "json" THEN Value(req.body.json)
    ELSE JsonRaised("JSONDecodeError")

\* await request.form(): the outcomes the form parser can have.  A multipart
\* header needs its boundary and a multipart body; a url-encoded body that is
\* no form parses to one key without a value; any other media type gives an
\* empty form.
RequestForm(req) ==
    LET mt == MediaType(req.ctype)
    IN  IF mt = <<"multipart/form-data">>
        THEN IF ~StrContains(req.ctype, "; boundary=b")
             THEN {FormRaised("MultiPartException")}
             ELSE IF req.body.kind = "multipart" THEN {Value(req.body.form)}
             ELSE IF req.body.kind = "empty"
             THEN {Value(<<>>), FormRaised("MultiPartException")}
             ELSE {FormRaised("MultiPartException")}
        ELSE IF mt = <<"application/x-www-form-urlencoded">>
        THEN IF req.body.kind = "urlencoded" THEN {Value(req.body.form)}
             ELSE IF req.body.kind = "empty" THEN {Value(<<>>)}
             ELSE {Value("<body>" :> PyStr(<<>>))}
        ELSE {Value(<<>>)}


(***************************************************************************)
(* ScheduleAPI._log_post_request: the outcomes of the logging step, as the  *)
(* parsed json and form the request object keeps, or the exception raised.  *)
(***************************************************************************)
Logged(json, form) == [exc |-> "", json |-> json, form |-> form]
LogThrew(e) == [exc |-> e, json |-> UnreadJson, form |-> UnreadForm]

LogPostRequest(req) ==
    IF StrContains(req.ctype, "multipart/form-data")
    THEN {IF f.exc # "" THEN LogThrew(f.exc) ELSE Logged(UnreadJson, f) :
             f \in RequestForm(req)}
    ELSE IF StrContains(req.ctype, "application/json")
    THEN LET j == RequestJson(req)
         IN  {IF j.exc # "" THEN LogThrew(j.exc) ELSE Logged(j, UnreadForm)}
    ELSE {Logged(UnreadJson, UnreadForm)}

(***************************************************************************)
(* ScheduleAPI.post_handler, the try block and its except clause: the       *)
(* outcomes for a request whose logging step left json and form.            *)
(***************************************************************************)
InternalError ==
    Returned(JSONResponse([text |-> <<"Internal server error">>], 500),
             <<"Request processing failed">>)

Caught(h) == IF h.exc # "" THEN InternalError ELSE h

\* request.json() and request.form() parse the body once and keep the result
ReadJson(req, json) == IF json.exc = "unread" THEN {RequestJson(req)} ELSE {json}

ReadForm(req, form) == IF form.exc = "unread" THEN RequestForm(req) ELSE {form}

\* j, f: what request.json() and request.form() give when the block calls them
PostHandlerTry(req, j, f) ==
    IF StrContains(req.ctype, "application/json")
    THEN Caught(IF j.exc # "" THEN Threw(j.exc, <<>>) ELSE HandleJsonCommand(j.v))
    ELSE Caught(IF f.exc # "" THEN Threw(f.exc, <<>>) ELSE HandleFormCommand(f.v))

(***************************************************************************)
(* The requests the model sends.                                            *)
(***************************************************************************)
IdValues ==
    {PyInt(n) : n \in -1..MaxId}
    \cup {PyStr(<<"3">>), PyStr(<<" ", "2", " ">>), PyStr(<<"1", "2">>),
          PyStr(<<"0">>), PyStr(<<"-", "1">>), PyStr(<<"a", "b", "c">>),
          PyStr(<<"2", ".", "5">>), PyStr(<<>>),
          PyFloat(27), PyFloat(5), PyFloat(-15), PyInf, PyNaN,
          PyBool(TRUE), PyBool(FALSE), PyNone, PyList(<<>>), EmptyDict}

ActionValues ==
    {PyStr(<<"delete">>), PyStr(<<"create">>), PyStr(<<" ", "delete">>), PyNone}

ContextMaps ==
    UNION {{f \in [K -> ActionValues \cup IdValues] :
               /\ "action" \in K => f["action"] \in ActionValues
               /\ "id" \in K => f["id"] \in IdValues} :
           K \in SUBSET {"action", "id"}}

ContextValues ==
    {PyDict(f) : f \in ContextMaps}
    \cup {PyStr(<<"delete">>), PyNone, PyList(<<"action", "id">>)}

JsonValues ==
    {PyDict("context" :> c) : c \in ContextValues}
    \cup {PyDict("context" :> c @@ "user_id" :> PyStr(<<"u1">>)) :
             c \in {PyDict("action" :> PyStr(<<"delete">>) @@ "id" :> PyInt(2))}}
    \cup {EmptyDict, PyDict("user_id" :> PyStr(<<"u1">>)),
          PyList(<<>>), PyList(<<"context">>), PyStr(<<"a">>), PyStr(<<"context">>),
          PyInt(5), PyNone}

CommandValues == {PyStr(<<"/schedule">>), PyStr(<<"/other">>), PyStr(<<>>), PyUploadFile}

TextValues ==
    {PyStr(<<"list">>), PyStr(<<" ", "list", " ">>), PyStr(<<"delete">>),
     PyStr(<<"help">>), PyStr(<<>>)}

FormMaps ==
    UNION {{f \in [K -> CommandValues \cup TextValues \cup {PyStr(<<"alice">>)}] :
               /\ "command" \in K => f["command"] \in CommandValues
               /\ "text" \in K => f["text"] \in TextValues
               /\ "user_name" \in K => f["user_name"] = PyStr(<<"alice">>)} :
           K \in SUBSET {"command", "text", "user_name"}}

Bodies ==
    {EmptyBody, GarbageBody}
    \cup {JsonBody(v) : v \in JsonValues}
    \cup {UrlEncodedBody(f) :
             f \in {g \in FormMaps : \A k \in DOMAIN g : g[k].t = "str"}}
    \cup {MultipartBody(f) : f \in FormMaps}

Requests == {Request(ct, b) : ct \in ContentTypes, b \in Bodies}

DeleteById(id) == PyDict("context" :> PyDict("action" :> PyStr(<<"delete">>) @@ "id" :> id))

ListForm == "command" :> PyStr(<<"/schedule">>) @@ "text" :> PyStr(<<"list">>)

\* the requests of the concurrent specification
ConcRequests ==
    {Request(CTUrlEncoded, UrlEncodedBody(ListForm)),
     Request(CTJson, GarbageBody),
     Request(CTAbsent, EmptyBody)}
    \cup {Request(CTJson, JsonBody(DeleteById(PyInt(n)))) : n \in 0..MaxId}

(***************************************************************************)
(* The server: each slot is one request being handled.                      *)
(***************************************************************************)
Idle ==
    [pc |-> "idle", req |-> Request(CTAbsent, EmptyBody), json |-> UnreadJson,
     form |-> UnreadForm, resp |-> NoResponse, exc |-> ""]

InFlight == Cardinality({s \in DOMAIN slots : slots[s].pc # "idle"})

\* the transport hands a POST /schedule to post_handler
Receive(s, r) ==
    /\ slots[s].pc = "idle"
    /\ Len(logged) + InFlight < MaxLog
    /\ slots' = [slots EXCEPT ![s] = [Idle EXCEPT !.pc = "logging", !.req = r]]
    /\ UNCHANGED logged

\* post_handler: await self._log_request_metadata(request), before the try
LogRequestMetadata(s) ==
    /\ slots[s].pc = "logging"
    /\ \E o \in LogPostRequest(slots[s].req) :
          slots' = [slots EXCEPT ![s] =
                       IF o.exc # ""
                       THEN [@ EXCEPT !.pc = "escaped", !.exc = o.exc]
                       ELSE [@ EXCEPT !.pc = "handling", !.json = o.json,
                                      !.form = o.form]]
    /\ UNCHANGED logged

\* post_handler: the try block and the except clause
PostHandler(s) ==
    /\ slots[s].pc = "handling"
    /\ LET req == slots[s].req
           isJson == StrContains(req.ctype, "application/json")
       IN  \E j \in IF isJson THEN ReadJson(req, slots[s].json) ELSE {slots[s].json},
              f \in IF isJson THEN {slots[s].form} ELSE ReadForm(req, slots[s].form) :
              LET h == PostHandlerTry(req, j, f)
              IN  /\ slots' = [slots EXCEPT ![s] =
                                  [@ EXCEPT !.pc = "done", !.resp = h.resp,
                                            !.json = j, !.form = f]]
                  /\ logged' = logged \o h.lines

\* the transport sends the response post_handler returned
Respond(s) ==
    /\ slots[s].pc = "done"
    /\ slots' = [slots EXCEPT ![s] = Idle]
    /\ UNCHANGED logged

\* the transport deals with the exception that left post_handler
TransportFault(s) ==
    /\ slots[s].pc = "escaped"
    /\ slots' = [slots EXCEPT ![s] = Idle]
    /\ UNCHANGED logged

\* one request at a time, any request
Init ==
    /\ slots = [s \in 1..1 |-> Idle]
    /\ logged = <<>>

Next ==
    \/ \E s \in DOMAIN slots, r \in Requests : Receive(s, r)
    \/ \E s \in DOMAIN slots : LogRequestMetadata(s)
    \/ \E s \in DOMAIN slots : PostHandler(s)
    \/ \E s \in DOMAIN slots : Respond(s)
    \/ \E s \in DOMAIN slots : TransportFault(s)

Spec == Init /\ [][Next]_vars

\* MaxInFlight requests handled concurrently
InitConc ==
    /\ slots = [s \in 1..MaxInFlight |-> Idle]
    /\ logged = <<>>

NextConc ==
    \/ \E s \in DOMAIN slots, r \in ConcRequests : Receive(s, r)
    \/ \E s \in DOMAIN slots : LogRequestMetadata(s)
    \/ \E s \in DOMAIN slots : PostHandler(s)
    \/ \E s \in DOMAIN slots : Respond(s)
    \/ \E s \in DOMAIN slots : TransportFault(s)

SpecConc == InitConc /\ [][NextConc]_vars

(***************************************************************************)
(* Properties.                                                              *)
(***************************************************************************)
Done(s) == slots[s].pc = "done"

Escaped(s) == slots[s].pc = "escaped"

\* post_handler took the JSON path and request.json() gave a value
JsonPath(s) ==
    StrContains(slots[s].req.ctype, "application/json") /\ slots[s].json.exc = ""

\* post_handler took the form path and request.form() gave a form
FormPath(s) ==
    ~StrContains(slots[s].req.ctype, "application/json") /\ slots[s].form.exc = ""

IsStr(x, str) == x.t = "str" /\ x.s = str

Begins(text, prefix) ==
    Len(text) >= Len(prefix) /\ SubSeq(text, 1, Len(prefix)) = prefix

UnknownOperation ==
    JSONResponse([text |-> <<"Error: Unknown operation. Available: list">>], 400)

\* C1: no exception leaves post_handler: every failure in reading the body
\* or handling the command, the logging step's included, becomes the 500
\* response {"text": "Internal server error"}.
C1_NoExceptionEscapes ==
    \A s \in DOMAIN slots :
        /\ ~Escaped(s)
        /\ Done(s) /\ slots[s].resp.status = 500 => slots[s].resp = InternalError.resp

\* C2 as stated: every response body has a text key.
C2_EveryBodyHasText ==
    \A s \in DOMAIN slots : Done(s) => "text" \in DOMAIN slots[s].resp.content

\* C2, amended: every response body post_handler returns has a text key,
\* except the delete-by-id success (status 200 on the JSON path), whose only
\* key is ephemeral_text.
C2_TextExceptDeleteSuccess ==
    \A s \in DOMAIN slots :
        Done(s) =>
            IF JsonPath(s) /\ slots[s].resp.status = 200
            THEN DOMAIN slots[s].resp.content = {"ephemeral_text"}
            ELSE "text" \in DOMAIN slots[s].resp.content

C2_Witness ==
    \E s \in DOMAIN slots :
        /\ Done(s) /\ JsonPath(s) /\ slots[s].resp.status = 200
        /\ "ephemeral_text" \in DOMAIN slots[s].resp.content

\* a validated form whose text is "delete"
FormDelete(s) ==
    /\ Done(s) /\ FormPath(s)
    /\ "command" \in DOMAIN slots[s].form.v
    /\ IsStr(slots[s].form.v["command"], <<"/schedule">>)
    /\ "text" \in DOMAIN slots[s].form.v
    /\ IsStr(slots[s].form.v["text"], <<"delete">>)

\* C3 as stated: the form command /schedule with text "delete" is answered
\* with a deletion acknowledgement, not with an error.
C3_FormDeleteAcknowledged ==
    \A s \in DOMAIN slots :
        FormDelete(s) =>
            /\ slots[s].resp.status = 200
            /\ ~Begins(slots[s].resp.content["text"], <<"Error: Unknown operation. Available: list">>)

\* C3, amended: the form command /schedule with text "delete" is not routed
\* to the delete handler; it is answered with the fixed error "Error: Unknown
\* operation. Available: list" and status 400, whatever other fields the form
\* carries.
C3_FormDeleteIsUnknownOperation ==
    \A s \in DOMAIN slots : FormDelete(s) => slots[s].resp = UnknownOperation

C3_Witness ==
    \E s \in DOMAIN slots :
        /\ FormDelete(s)
        /\ "user_name" \in DOMAIN slots[s].form.v
        /\ slots[s].resp = UnknownOperation

(***************************************************************************)
(* C4, C5: the JSON validator.  The six checks, each stated on its own; a   *)
(* check is looked at only when the ones before it pass.                    *)
(***************************************************************************)
Context(data) == data.d["context"]

CheckPasses(k, data) ==
    CASE k = 1 -> "context" \in DOMAIN data.d
      [] k = 2 -> Context(data).t = "dict"
      [] k = 3 -> "action" \in DOMAIN Context(data).d
      [] k = 4 -> IsStr(Context(data).d["action"], <<"delete">>)
      [] k = 5 -> "id" \in DOMAIN Context(data).d
      [] k = 6 -> LET n == PyIntOf(Context(data).d["id"]) IN n.exc = "" /\ n.v > 0

\* the first check that fails, 7 when none does
RECURSIVE FirstFailingFrom(_, _)
FirstFailingFrom(k, data) ==
    IF k > 6 THEN 7
    ELSE IF ~CheckPasses(k, data) THEN k
    ELSE FirstFailingFrom(k + 1, data)

FirstFailing(data) == FirstFailingFrom(1, data)

\* how the error of each check begins
CheckError ==
    <<"No context provided", "Context must be a dictionary",
      "No action specified in context", "Invalid action: ",
      "No id specified in context", "Invalid id: ">>

\* the request's JSON body is a mapping
JsonMapping(s) == Done(s) /\ JsonPath(s) /\ slots[s].json.v.t = "dict"

\* C4: for every input mapping the validator returns the error of the first
\* failing check without evaluating a later one, and succeeds exactly when
\* all six checks pass.
C4_FirstFailingCheckReported ==
    \A s \in DOMAIN slots :
        JsonMapping(s) =>
            LET data == slots[s].json.v
                v == ValidateJsonCommand(data)
                k == FirstFailing(data)
            IN  /\ v.exc = ""
                /\ v.ok <=> k = 7
                /\ ~v.ok => v.at = k /\ Head(v.error) = CheckError[k]
                /\ ~v.ok => slots[s].resp.content["text"] = <<"Error: ">> \o v.error

\* a JSON body whose context is a mapping with action "delete" and an id
DeleteWithId(s) ==
    /\ JsonMapping(s)
    /\ FirstFailing(slots[s].json.v) >= 6

\* C5: with action "delete" and an id present, the response reports
\* InvalidId whenever the id does not parse to an integer or parses to one
\* <= 0, and a deletion is acknowledged only for an id that parses to a
\* positive integer.
C5_InvalidIdReported ==
    \A s \in DOMAIN slots :
        DeleteWithId(s) =>
            LET n == PyIntOf(Context(slots[s].json.v).d["id"])
            IN  IF n.exc # "" \/ n.v <= 0
                THEN /\ "text" \in DOMAIN slots[s].resp.content
                     /\ Begins(slots[s].resp.content["text"], <<"Error: ", "Invalid id: ">>)
                ELSE "ephemeral_text" \in DOMAIN slots[s].resp.content

(***************************************************************************)
(* C6: the list response.                                                   *)
(***************************************************************************)
\* a validated form whose text is "list"
FormList(s) ==
    /\ Done(s) /\ FormPath(s)
    /\ "command" \in DOMAIN slots[s].form.v
    /\ IsStr(slots[s].form.v["command"], <<"/schedule">>)
    /\ "text" \in DOMAIN slots[s].form.v
    /\ IsStr(slots[s].form.v["text"], <<"list">>)

\* the ids the delete actions of a response's attachments carry
AttachmentIds(resp) ==
    [i \in 1..Len(resp.content["attachments"]) |->
        resp.content["attachments"][i].actions[1].integration.context.id]

\* C6: a valid form command with text "list" yields exactly 3 attachments,
\* each with one delete action whose context is {action: "delete", id}, the
\* ids being 1, 2, 3 in that order.
C6_ListHasThreeAttachments ==
    \A s \in DOMAIN slots :
        FormList(s) =>
            /\ "attachments" \in DOMAIN slots[s].resp.content
            /\ Len(slots[s].resp.content["attachments"]) = 3
            /\ \A i \in 1..3 :
                  LET a == slots[s].resp.content["attachments"][i]
                  IN  /\ Len(a.actions) = 1
                      /\ a.actions[1].id = "delete"
                      /\ a.actions[1].integration.context = [action |-> "delete", id |-> i]
            /\ AttachmentIds(slots[s].resp) = <<1, 2, 3>>

C6_Witness ==
    \E s \in DOMAIN slots :
        /\ FormList(s)
        /\ "user_name" \in DOMAIN slots[s].form.v
        /\ AttachmentIds(slots[s].resp) = <<1, 2, 3>>

(***************************************************************************)
(* C7: requests do not interact.                                            *)
(***************************************************************************)
\* a JSON request {"context": {"action": "delete", "id": n}} for an integer n > 0
DeleteRequest(s, n) ==
    /\ Done(s)
    /\ slots[s].req = Request(CTJson, JsonBody(DeleteById(PyInt(n))))

Acknowledgement(n) ==
    JSONResponse(
        [ephemeral_text |-> <<"Scheduled message ">> \o IntToStr(n) \o <<" deleted.">>],
        200)

\* C7: in every interleaving of requests a delete of id n is acknowledged
\* with that id, a list request is answered with the events 1, 2, 3 whatever
\* was deleted before, and requests with the same content type and body get
\* the same response.
C7_RequestsDoNotInteract ==
    /\ \A s \in DOMAIN slots, n \in 1..MaxId :
          DeleteRequest(s, n) => slots[s].resp = Acknowledgement(n)
    /\ \A s \in DOMAIN slots :
          FormList(s) => AttachmentIds(slots[s].resp) = <<1, 2, 3>>
    /\ \A s, t \in DOMAIN slots :
          Done(s) /\ Done(t) /\ slots[s].req = slots[t].req
              => slots[s].resp = slots[t].resp

\* a list answered after a delete of id 2 was handled, the delete's response
\* still at hand
C7_Witness ==
    /\ logged = <<"Deleting scheduled message ID", "Listing scheduled events">>
    /\ \E s, t \in DOMAIN slots :
          /\ DeleteRequest(s, 2) /\ slots[s].resp = Acknowledgement(2)
          /\ FormList(t) /\ AttachmentIds(slots[t].resp) = <<1, 2, 3>>

(***************************************************************************)
(* C8, C9, C10: the form path.                                              *)
(***************************************************************************)
NoCommandProvided ==
    JSONResponse([text |-> <<"Error: ", "No command provided">>], 400)

\* the request has been handled, one way or the other
Handled(s) == Done(s) \/ Escaped(s)

\* C8: a POST with an empty body whose content type is absent, malformed or
\* anything but application/json is answered "Error: No command provided";
\* it neither raises nor gets the internal-error response.
C8_EmptyBodyNoCommand ==
    \A s \in DOMAIN slots :
        /\ Handled(s)
        /\ slots[s].req.body = EmptyBody
        /\ MediaType(slots[s].req.ctype) # <<"application/json">>
        => Done(s) /\ slots[s].resp = NoCommandProvided

\* the response comes from the router: the list, or the unknown-operation error
Routed(resp) == "attachments" \in DOMAIN resp.content \/ resp = UnknownOperation

\* C9: on the form path a form without command is answered "Error: No
\* command provided", a form whose command is not "/schedule" is answered
\* with the invalid-command error naming that command, neither reaches the
\* router, and a form whose command is "/schedule" reaches it whatever its
\* other fields are.
C9_FormValidationByCommand ==
    \A s \in DOMAIN slots :
        Done(s) /\ FormPath(s) =>
            LET data == slots[s].form.v
                resp == slots[s].resp
            IN  IF "command" \notin DOMAIN data
                THEN /\ Begins(resp.content["text"], <<"Error: ", "No command provided">>)
                     /\ ~Routed(resp)
                ELSE IF ~IsStr(data["command"], <<"/schedule">>)
                THEN /\ Begins(resp.content["text"], <<"Error: ", "Invalid command: ">>)
                     /\ data["command"].t = "str" =>
                            Begins(resp.content["text"],
                                   <<"Error: ", "Invalid command: ">> \o data["command"].s)
                     /\ ~Routed(resp)
                ELSE Routed(resp)

\* forms without command, with a wrong one and with the right one have all
\* been answered; the state at hand is a wrong command carrying a list text
C9_Witness ==
    \E s \in DOMAIN slots :
        /\ Done(s) /\ FormPath(s)
        /\ "command" \in DOMAIN slots[s].form.v
        /\ IsStr(slots[s].form.v["command"], <<"/other">>)
        /\ "text" \in DOMAIN slots[s].form.v
        /\ IsStr(slots[s].form.v["text"], <<"list">>)
        /\ slots[s].resp.status = 400

\* a form that passed validation
FormValid(s) ==
    /\ Done(s) /\ FormPath(s)
    /\ "command" \in DOMAIN slots[s].form.v
    /\ IsStr(slots[s].form.v["command"], <<"/schedule">>)

\* C10: the router looks at the trimmed text: a text that is "list" once
\* surrounding whitespace is removed gets the list, an absent, empty or any
\* other text gets the unknown-operation error naming the operations.
C10_TrimmedTextRouted ==
    \A s \in DOMAIN slots :
        FormValid(s) =>
            LET data == slots[s].form.v
            IN  IF "text" \in DOMAIN data /\ data["text"].t = "str"
                   /\ Strip(data["text"].s) = <<"list">>
                THEN "attachments" \in DOMAIN slots[s].resp.content
                ELSE slots[s].resp = UnknownOperation

====
